---- MODULE Spec2Model ----
(***************************************************************************)
(* Model of the csnip memory pool (src/src/csnip/mempool.h): a slab        *)
(* allocator with an intrusive free list, as generated by                  *)
(* CSNIP_MEMPOOL_DEF_TYPE / CSNIP_MEMPOOL_DEF_FUNCS.                        *)
(*                                                                         *)
(* Pointers.  A block handed out by the allocation collaborator is named   *)
(* by its number b >= 1; the null block pointer is 0.  An item pointer is  *)
(* <<b, i>>, item i (0-based) of slab b; the null item pointer is <<0,0>>. *)
(***************************************************************************)
EXTENDS Integers, Sequences, FiniteSets, Bags, TLC

\* ---------------------------------------------------------------- bounds
\* alloc_item is not called once n_items has reached MaxNItems.
MaxNItems == 10
\* free_item is called at most MaxFrees times in a run.
MaxFrees == 2
\* deinit is called at most MaxDeinits times in a run.
MaxDeinits == 2
\* init_with_cap is called with cap in 1..MaxCap.
MaxCap == 4

VARIABLES
    pool,      \* the struct pooltype: slabs, n_slabs, cap_slabs, n_items, first_free
    heap,      \* the collaborator's blocks, in allocation order
    mem,       \* item storage: the pointer overlaid on each item of each slab
    err,       \* *err of the call in progress / last call (TRUE: an error was raised)
    status,    \* "uninit", "live", or how the process died: "abort", "segv", "corrupt"
    held,      \* caller: bag of item pointers returned by alloc_item and not yet freed
    last,      \* the last call: its name, result and collaborator request
    origin,    \* how the current pool lifetime started
    reqs,      \* collaborator allocation requests of the current pool lifetime
    runA,      \* items returned by the run of alloc_item calls before the free run
    runF,      \* the current run of free_item calls: item and first_free before
    runA2,     \* the alloc_item calls that followed the free run
    nFrees,    \* number of free_item calls so far in the run
    nFreesLife,\* number of free_item calls in the current pool lifetime
    nAllocsLife,\* number of alloc_item calls that returned an item, same lifetime
    nDeinits   \* number of deinit calls so far

vars == <<pool, heap, mem, err, status, held, last, origin, reqs,
          runA, runF, runA2, nFrees, nFreesLife, nAllocsLife, nDeinits>>

\* ------------------------------------------------------------- pointers
Null == <<0, 0>>
NullBlock == 0

\* (pooltype) { NULL }: every member zero.
EmptyPool ==
    [slabs |-> NullBlock, n_slabs |-> 0, cap_slabs |-> 0,
     n_items |-> 0, first_free |-> Null]

\* The items of a slab block b of n items.
ItemsOf(b, n) == {<<b, i>> : i \in 0 .. n - 1}

\* ------------------------------------------------- allocation collaborator
\* csnip_mem_Alloc(n, ptr, err) that succeeds: a fresh block is appended.
mem_Alloc(h, kind, n, ptrs) ==
    Append(h, [kind |-> kind, n |-> n, state |-> "allocated", frees |-> 0,
               ptrs |-> ptrs])

\* csnip_mem_Free(ptr): releasing the null pointer does nothing.
mem_Free(h, b) ==
    IF b = NullBlock THEN h
    ELSE [h EXCEPT ![b].state = "freed", ![b].frees = @ + 1]

\* ------------------------------------------------------------- get_slab
\* Variant of SlabLinks: the last item points back to the first one.
SlabLinks_cyclic(b, n) ==
    [p \in ItemsOf(b, n) |-> IF p[2] < n - 1 THEN <<b, p[2] + 1>> ELSE <<b, 0>>]

\* Variant of SlabLinks: the loop stops one item early, the list ends at
\* the item before the last.
SlabLinks_short(b, n) ==
    [p \in ItemsOf(b, n) |-> IF p[2] < n - 2 THEN <<b, p[2] + 1>> ELSE Null]

\* Variant of SlabLinks: the loop also stores NULL one slab too low, into
\* the first item of the block obtained before this one.
SlabLinks_stray(b, n) ==
    [p \in ItemsOf(b, n) \cup {<<b - 1, 0>>} |->
        IF p[1] = b /\ p[2] < n - 1 THEN <<b, p[2] + 1>> ELSE Null]

\* The loop of get_slab: item i points to item i + 1, the last one to NULL.
SlabLinks(b, n) ==
    [p \in ItemsOf(b, n) |-> IF p[2] < n - 1 THEN <<b, p[2] + 1>> ELSE Null]

\* get_slab(n, err) with the collaborator succeeding (ok) or not: the
\* pointer returned, the heap and the item storage afterwards, and *err.
get_slab(n, ok, h, m) ==
    IF ok
    THEN [sl   |-> <<Len(h) + 1, 0>>,
          heap |-> mem_Alloc(h, "slab", n, <<>>),
          mem  |-> SlabLinks(Len(h) + 1, n) @@ m,
          err  |-> FALSE]
    ELSE [sl |-> Null, heap |-> h, mem |-> m, err |-> TRUE]

\* ---------------------------------------------------------------- ghosts
NoCall == [op |-> "none", ret |-> Null, req |-> 0, ok |-> TRUE, pre |-> EmptyPool]

Req(by, kind, n, ok) == [by |-> by, kind |-> kind, n |-> n, ok |-> ok]

\* The members of struct pooltype and the values the model gives them.
TypeOK ==
    /\ pool.slabs \in 0 .. Len(heap)
    /\ pool.n_slabs \in {0, 1}
    /\ pool.cap_slabs \in {0, 1}
    /\ pool.n_items \in 0 .. MaxNItems
    /\ pool.first_free \in {Null} \cup DOMAIN mem
    /\ status \in {"uninit", "live", "abort", "segv", "corrupt"}
    /\ err \in BOOLEAN

Init ==
    /\ pool = EmptyPool
    /\ heap = <<>>
    /\ mem = <<>>
    /\ err = FALSE
    /\ status = "uninit"
    /\ held = EmptyBag
    /\ last = NoCall
    /\ origin = "none"
    /\ reqs = <<>>
    /\ runA = <<>>
    /\ runF = <<>>
    /\ runA2 = <<>>
    /\ nFrees = 0
    /\ nFreesLife = 0
    /\ nAllocsLife = 0
    /\ nDeinits = 0

\* ------------------------------------------------------------ init_empty
init_empty ==
    /\ status = "uninit"
    /\ pool' = EmptyPool
    /\ status' = "live"
    /\ err' = FALSE
    /\ last' = [NoCall EXCEPT !.op = "init_empty"]
    /\ origin' = "init_empty"
    /\ UNCHANGED <<heap, mem, held, reqs, runA, runF, runA2,
                   nFrees, nFreesLife, nAllocsLife, nDeinits>>

\* --------------------------------------------------------- init_with_cap
\* What the dereference of a null pointer can do: trap, or go on with
\* memory in an arbitrary state.
NullDerefOutcomes == {"segv", "corrupt"}

init_with_cap(cap, okSlab, okIndex) ==
    /\ status = "uninit"
    /\ LET r == get_slab(cap, okSlab, heap, mem)
           slabs == IF okIndex THEN Len(r.heap) + 1 ELSE NullBlock
           rq == <<Req("init_with_cap", "slab", cap, okSlab),
                   Req("init_with_cap", "index", 1, okIndex)>>
       IN  /\ mem' = r.mem
           /\ err' = (r.err \/ ~okIndex)
           /\ reqs' = rq
           /\ origin' = "init_with_cap"
           /\ IF okIndex
              THEN \* slabs[0] = sl; return (pooltype) { ... }
                   /\ heap' = mem_Alloc(r.heap, "index", 1, <<r.sl[1]>>)
                   /\ pool' = [slabs |-> slabs, n_slabs |-> 1, cap_slabs |-> 1,
                               n_items |-> 0, first_free |-> r.sl]
                   /\ status' = "live"
              ELSE \* slabs is NULL: slabs[0] = sl writes through it
                   /\ heap' = r.heap
                   /\ pool' = pool
                   /\ status' \in NullDerefOutcomes
           /\ last' = [op |-> "init_with_cap", ret |-> r.sl, req |-> cap,
                       ok |-> okSlab /\ okIndex, pre |-> pool]
    /\ UNCHANGED <<held, runA, runF, runA2, nFrees, nFreesLife, nAllocsLife,
                   nDeinits>>

\* ------------------------------------------------------------ alloc_item
\* Floor of the growth size: "if (sz < 8) sz = 8".
MinSlab == 8

\* "if (pool->first_free == NULL)": more memory is needed.
NeedsMore(p) == p.first_free = Null

\* Variant of GrowSize: the slab is twice the counter.
GrowSize_double(n) == IF n < MinSlab THEN MinSlab ELSE 2 * n

\* Variant of GrowSize: the slab is half the counter, the floor applied first.
GrowSize_half(n) == IF n < MinSlab THEN MinSlab ELSE n \div 2

\* Variant of GrowSize: a floor of 16 items.
GrowSize_floor16(n) == IF n < 2 * MinSlab THEN 2 * MinSlab ELSE n

\* Variant of GrowSize: every slab has the floor size.
GrowSize_flat(n) == MinSlab

\* "size_t sz = pool->n_items; if (sz < 8) sz = 8;"
GrowSize(n) == IF n < MinSlab THEN MinSlab ELSE n

\* Variant of PopNext: the head of the free list is not advanced.
PopNext_stay(m, it) == it

\* "pool->first_free = *((itemtype**)it)": the pointer overlaid on item it.
PopNext(m, it) == m[it]

\* Variant of Counted: the counter is advanced twice.
Counted_twice(n) == n + 2

\* "++pool->n_items"
Counted(n) == n + 1

\* What a failed assert(it != NULL) can do: abort the process, or, in a
\* build with NDEBUG, fall through to the dereference of the null pointer.
NullItemOutcomes == {"abort"} \cup NullDerefOutcomes

\* The free_item/alloc_item runs after an alloc_item that returned it.
AllocRuns(it, grew) ==
    IF runF = <<>>
    THEN /\ runA' = Append(runA, it)
         /\ UNCHANGED <<runF, runA2>>
    ELSE IF Len(runA2) < Len(runF)
    THEN /\ runA2' = Append(runA2, [ret |-> it, grew |-> grew])
         /\ UNCHANGED <<runA, runF>>
    ELSE /\ runA' = Append([i \in 1 .. Len(runA2) |-> runA2[i].ret], it)
         /\ runF' = <<>>
         /\ runA2' = <<>>

alloc_item(ok) ==
    /\ status = "live"
    /\ pool.n_items < MaxNItems
    /\ NeedsMore(pool) \/ ok
    /\ LET grow == NeedsMore(pool)
           sz == GrowSize(pool.n_items)
           r == IF grow THEN get_slab(sz, ok, heap, mem)
                ELSE [sl |-> pool.first_free, heap |-> heap, mem |-> mem,
                      err |-> FALSE]
           it == r.sl
       IN  /\ heap' = r.heap
           /\ mem' = r.mem
           /\ err' = r.err
           /\ reqs' = IF grow THEN Append(reqs, Req("alloc_item", "slab", sz, ok))
                      ELSE reqs
           /\ last' = [op |-> "alloc_item", ret |-> it,
                       req |-> IF grow THEN sz ELSE 0, ok |-> ok, pre |-> pool]
           /\ IF it = Null
              THEN \* assert(it != NULL) fails
                   /\ \E s \in NullItemOutcomes :
                         /\ status' = s
                         /\ pool' = [pool EXCEPT
                                       !.first_free = Null,
                                       !.n_items = IF s = "abort" THEN @
                                                   ELSE Counted(@)]
                   /\ runA' = <<>> /\ runF' = <<>> /\ runA2' = <<>>
                   /\ UNCHANGED <<held, nAllocsLife>>
              ELSE /\ pool' = [pool EXCEPT !.first_free = PopNext(r.mem, it),
                                           !.n_items = Counted(@)]
                   /\ held' = held (+) SetToBag({it})
                   /\ AllocRuns(it, grow)
                   /\ nAllocsLife' = nAllocsLife + 1
                   /\ UNCHANGED status
    /\ UNCHANGED <<origin, nFrees, nFreesLife, nDeinits>>

\* ------------------------------------------------------------- free_item
\* Variant of FreeLink: the freed item ends the list.
FreeLink_cut(p, e) == Null

\* Variant of FreeLink: the freed item is made to point to itself.
FreeLink_self(p, e) == e

\* "*((itemtype**)e) = pool->first_free": the pointer written into item e.
FreeLink(p, e) == p.first_free

\* Variant of FreeHead: the head of the free list is left as it was.
FreeHead_lost(p, e) == p.first_free

\* "pool->first_free = e"
FreeHead(p, e) == e

\* Variant of FreeCount: the counter follows the items in use.
FreeCount_dec(n) == n - 1

\* free_item has no statement on pool->n_items: the counter keeps its value.
FreeCount(n) == n

free_item(e) ==
    /\ status = "live"
    /\ nFrees < MaxFrees
    /\ BagIn(e, held)
    /\ mem' = [mem EXCEPT ![e] = FreeLink(pool, e)]
    /\ pool' = [pool EXCEPT !.first_free = FreeHead(pool, e),
                             !.n_items = FreeCount(@)]
    /\ held' = held (-) SetToBag({e})
    /\ err' = FALSE
    /\ last' = [op |-> "free_item", ret |-> e, req |-> 0, ok |-> TRUE,
                pre |-> pool]
    /\ IF runA2 # <<>>
       THEN /\ runA' = [i \in 1 .. Len(runA2) |-> runA2[i].ret]
            /\ runF' = <<[e |-> e, ff |-> pool.first_free]>>
            /\ runA2' = <<>>
       ELSE /\ runF' = Append(runF, [e |-> e, ff |-> pool.first_free])
            /\ UNCHANGED <<runA, runA2>>
    /\ nFrees' = nFrees + 1
    /\ nFreesLife' = nFreesLife + 1
    /\ UNCHANGED <<heap, status, origin, reqs, nAllocsLife, nDeinits>>

\* ---------------------------------------------------------------- deinit
\* "for (i = 0; i < pool->n_slabs; ++i) csnip_mem_Free(pool->slabs[i]);"
\* from iteration i on (ptrs: the slab-index array, 1-based here).
RECURSIVE FreeSlabs(_, _, _, _)
FreeSlabs(h, ptrs, i, n) ==
    IF i >= n THEN h
    ELSE FreeSlabs(mem_Free(h, ptrs[i + 1]), ptrs, i + 1, n)

\* Variant of DeinitHeap: the slab-index array is not released.
DeinitHeap_noindex(p, h) == FreeSlabs(h, h[p.slabs].ptrs, 0, p.n_slabs)

\* The heap after deinit's loop and "csnip_mem_Free(pool->slabs)".
DeinitHeap(p, h) ==
    mem_Free(FreeSlabs(h, h[p.slabs].ptrs, 0, p.n_slabs), p.slabs)

\* Variant of DeinitPool: the counter survives the reset.
DeinitPool_keepcount(p) == [EmptyPool EXCEPT !.n_items = p.n_items]

\* "*pool = (pooltype) { NULL }"
DeinitPool(p) == EmptyPool

deinit ==
    /\ status = "live"
    /\ nDeinits < MaxDeinits
    /\ held = EmptyBag
    /\ IF pool.n_slabs > 0 /\ pool.slabs = NullBlock
       THEN \* pool->slabs[0] read through a null pointer
            /\ status' \in NullDerefOutcomes
            /\ UNCHANGED <<pool, heap>>
       ELSE /\ heap' = IF pool.slabs = NullBlock THEN mem_Free(heap, NullBlock)
                       ELSE DeinitHeap(pool, heap)
            /\ pool' = DeinitPool(pool)
            /\ UNCHANGED status
    /\ err' = FALSE
    /\ last' = [op |-> "deinit", ret |-> Null, req |-> 0, ok |-> TRUE,
                pre |-> pool]
    /\ origin' = "deinit"
    /\ reqs' = <<>>
    /\ runA' = <<>> /\ runF' = <<>> /\ runA2' = <<>>
    /\ nFreesLife' = 0
    /\ nAllocsLife' = 0
    /\ nDeinits' = nDeinits + 1
    /\ UNCHANGED <<mem, held, nFrees>>

Next ==
    \/ init_empty
    \/ \E cap \in 1 .. MaxCap, okSlab \in BOOLEAN, okIndex \in BOOLEAN :
          init_with_cap(cap, okSlab, okIndex)
    \/ \E ok \in BOOLEAN : alloc_item(ok)
    \/ \E e \in BagToSet(held) : free_item(e)
    \/ deinit

Spec == Init /\ [][Next]_vars

\* ------------------------------------------------------ reading the state
\* The free list from pointer p: the items met by following the overlaid
\* pointers, at most fuel of them.
RECURSIVE Chain(_, _, _)
Chain(p, m, fuel) ==
    IF p = Null \/ fuel = 0 THEN <<>>
    ELSE <<p>> \o Chain(m[p], m, fuel - 1)

\* Number of items in all slabs obtained so far.
TotalItems ==
    LET RECURSIVE Sum(_)
        Sum(b) == IF b = 0 THEN 0
                  ELSE Sum(b - 1) + (IF heap[b].kind = "slab" THEN heap[b].n ELSE 0)
    IN  Sum(Len(heap))

FreeList == Chain(pool.first_free, mem, TotalItems + 1)

Range(f) == {f[i] : i \in DOMAIN f}

\* The blocks that are still allocated.
StillAllocated == {b \in 1 .. Len(heap) : heap[b].state = "allocated"}

\* Sizes of the slabs obtained in the current pool lifetime, in order.
SlabSizes ==
    LET Pick(q) == q.kind = "slab" /\ q.ok
        sel == SelectSeq(reqs, Pick)
    IN  [i \in 1 .. Len(sel) |-> sel[i].n]

\* The last k elements of a sequence.
LastK(q, k) == {q[i] : i \in (Len(q) - k + 1) .. Len(q)}

\* ------------------------------------------------------------------ C1
\* C1: no two simultaneously live items alias: every reference returned by
\* alloc_item and not yet freed is held exactly once, and it is an item of
\* a slab the collaborator handed out.
C1_NoAliasing ==
    \A e \in BagToSet(held) :
        /\ CopiesIn(e, held) = 1
        /\ e[1] \in 1 .. Len(heap)
        /\ heap[e[1]].kind = "slab"
        /\ e[2] \in 0 .. heap[e[1]].n - 1

\* Items of two slabs are held, one of them handed out a second time.
C1_Witness ==
    /\ status = "live"
    /\ nFrees >= 1
    /\ \E e1, e2 \in BagToSet(held) : e1[1] # e2[1]
    /\ \E e \in BagToSet(held) : \E i \in 1 .. Len(runF) : runF[i].e = e

\* ------------------------------------------------------------------ C2
\* C2: after a deinit with zero outstanding items no block obtained for the
\* pool is still allocated, and no block was released twice.
C2_DeinitReleasesAll ==
    (last.op = "deinit" /\ status = "live") =>
        /\ StillAllocated = {}
        /\ \A b \in 1 .. Len(heap) : heap[b].frees = 1

\* ------------------------------------------------------------------ C3
\* C3: an alloc_item whose slab request fails returns NULL with *err set,
\* does not crash, and leaves the pool as it was.
C3_AllocFailureReported ==
    (last.op = "alloc_item" /\ ~last.ok) =>
        /\ status = "live"
        /\ last.ret = Null
        /\ err
        /\ pool = last.pre

\* ------------------------------------------------------------------ C4
\* C4: an init_with_cap that meets an allocation failure reports it through
\* *err without dereferencing a null pointer, and after the deinit of the
\* pool it returned no block is still allocated.
C4_InitFailureSafe ==
    /\ (last.op = "init_with_cap" /\ ~last.ok) => (status = "live" /\ err)
    /\ (/\ last.op = "deinit"
        /\ last.pre.n_slabs = 1
        /\ last.pre.n_items = 0
        /\ last.pre.first_free = Null) => (status = "live" /\ StillAllocated = {})

\* ------------------------------------------------------------------ C5
\* C5: whenever alloc_item finds the free list empty, the slab it requests
\* has max(8, n_items) items, n_items read at the moment of the request,
\* and the slab obtained has that many items.
C5_GrowthSize ==
    (last.op = "alloc_item" /\ last.req # 0) =>
        /\ last.req = (IF last.pre.n_items > 8 THEN last.pre.n_items ELSE 8)
        /\ last.ok => /\ heap[Len(heap)].kind = "slab"
                      /\ heap[Len(heap)].n = last.req
                      /\ reqs[Len(reqs)].n = last.req

\* The second slab of a pool started with init_empty, larger than the floor.
C5_Witness ==
    /\ status = "live"
    /\ origin = "init_empty"
    /\ last.op = "alloc_item"
    /\ last.req = 9
    /\ Len(reqs) = 2

\* ------------------------------------------------------------------ C6
\* C6: in a pool started with init_empty the sizes of the slabs obtained
\* are non-decreasing in allocation order.
C6_SizesNonDecreasing ==
    origin = "init_empty" =>
        \A i, j \in 1 .. Len(SlabSizes) : i < j => SlabSizes[i] <= SlabSizes[j]

\* Two slabs, the second larger than the first, with frees in between.
C6_Witness ==
    /\ status = "live"
    /\ origin = "init_empty"
    /\ Len(SlabSizes) = 2
    /\ SlabSizes[2] > SlabSizes[1]
    /\ nFreesLife >= 1

\* ------------------------------------------------------------------ C7
\* C7: alloc_item requests a slab only when the free list is empty; and
\* after N items were acquired and all N freed, the next N (or fewer)
\* alloc_item calls request no slab and return items of the first round.
C7_ReuseBeforeGrowth ==
    /\ (last.op = "alloc_item" /\ last.req # 0) => last.pre.first_free = Null
    /\ LET N == Len(runF)
           freed == {runF[i].e : i \in 1 .. N}
       IN  (N >= 1 /\ Len(runA) >= N /\ freed = LastK(runA, N)) =>
               \A i \in 1 .. Len(runA2) :
                   /\ ~runA2[i].grew
                   /\ runA2[i].ret \in LastK(runA, N)

\* Two items acquired, both freed, two acquired again.
C7_Witness ==
    /\ status = "live"
    /\ Len(runF) = 2
    /\ Len(runA) >= 2
    /\ {runF[i].e : i \in 1 .. 2} = LastK(runA, 2)
    /\ Len(runA2) = 2

\* ------------------------------------------------------------------ C8
\* C8: items freed in the order e1..ek with no alloc_item in between are
\* returned by the next alloc_item calls in the order ek..e1, without a
\* slab request, and each such alloc_item leaves first_free at its value
\* before the matching free_item.
C8_LifoReuse ==
    LET k == Len(runF)
        j == Len(runA2)
    IN  /\ \A i \in 1 .. j :
               /\ runA2[i].ret = runF[k + 1 - i].e
               /\ ~runA2[i].grew
        /\ (status = "live" /\ j >= 1) => pool.first_free = runF[k + 1 - j].ff

\* Two items freed, not in the reverse of the order they were acquired
\* in, and both handed out again.
C8_Witness ==
    /\ status = "live"
    /\ Len(runF) = 2
    /\ Len(runA2) = 2
    /\ Len(runA) >= 2
    /\ runF[1].e = runA[Len(runA) - 1]
    /\ runF[2].e = runA[Len(runA)]

\* ------------------------------------------------------------------ C9
\* C9: after a successful init_with_cap(cap) all cap items are on the free
\* list; the first cap alloc_item calls with no free_item in between make
\* no request to the collaborator and return cap distinct items of the
\* slab; the next one requests a slab of max(8, cap) items.
C9_InitWithCap ==
    (/\ origin = "init_with_cap"
     /\ status = "live"
     /\ reqs[1].ok /\ reqs[2].ok
     /\ nFreesLife = 0) =>
        LET cap == reqs[1].n
            sl == heap[pool.slabs].ptrs[1]
            n == pool.n_items
        IN  /\ n <= cap =>
                  /\ Len(reqs) = 2
                  /\ BagToSet(held) \subseteq ItemsOf(sl, cap)
                  /\ Cardinality(BagToSet(held)) = n
                  /\ BagCardinality(held) = n
                  /\ Range(FreeList) = ItemsOf(sl, cap) \ BagToSet(held)
                  /\ Len(FreeList) = cap - n
            /\ n > cap =>
                  /\ Len(reqs) >= 3
                  /\ reqs[3].by = "alloc_item"
                  /\ reqs[3].n = (IF cap > 8 THEN cap ELSE 8)
            /\ n = cap + 1 => Len(reqs) = 3

\* Scenario A: init_with_cap(4), five items acquired.
C9_Witness ==
    /\ origin = "init_with_cap"
    /\ status = "live"
    /\ reqs[1].ok /\ reqs[2].ok
    /\ reqs[1].n = 4
    /\ nFreesLife = 0
    /\ pool.n_items = 5
    /\ Len(reqs) = 3

\* ------------------------------------------------------------------ C10
\* C10: init_empty makes no request to the collaborator and returns a pool
\* with no slabs and an empty free list; with no free_item in between, the
\* first alloc_item obtains one slab of 8 items, the next 7 make no
\* request, and the 9th makes the second one.
C10_InitEmpty ==
    (origin = "init_empty" /\ status = "live" /\ nFreesLife = 0) =>
        LET n == pool.n_items
        IN  /\ n = 0 => (reqs = <<>> /\ heap = <<>> /\ pool = EmptyPool)
            /\ n \in 1 .. 8 =>
                  /\ Len(reqs) = 1
                  /\ reqs[1].n = 8
                  /\ Len(FreeList) = 8 - n
            /\ n = 9 => Len(reqs) = 2

\* Scenario B continued to the ninth alloc_item.
C10_Witness ==
    /\ origin = "init_empty"
    /\ status = "live"
    /\ nFreesLife = 0
    /\ pool.n_items = 9
    /\ Len(reqs) = 2

\* ------------------------------------------------------------------ C11
\* C11: a successful init_with_cap followed at once by deinit releases
\* exactly two blocks, the slab and the slab-index array, each once, and
\* nothing obtained by init_with_cap stays allocated.
C11_InitThenDeinit ==
    (/\ last.op = "deinit"
     /\ status = "live"
     /\ last.pre.n_slabs = 1
     /\ last.pre.n_items = 0
     /\ last.pre.first_free # Null) =>
        /\ Len(heap) = 2
        /\ heap[1].kind = "slab" /\ heap[2].kind = "index"
        /\ \A b \in 1 .. 2 : heap[b].state = "freed" /\ heap[b].frees = 1
        /\ StillAllocated = {}

\* init_with_cap(4) succeeded and deinit was the next call.
C11_Witness ==
    /\ last.op = "deinit"
    /\ status = "live"
    /\ last.pre.n_slabs = 1
    /\ last.pre.n_items = 0
    /\ last.pre.first_free # Null
    /\ heap[1].n = 4

CurBlocks ==
    LET Ok(q) == q.ok
    IN  (Len(heap) - Len(SelectSeq(reqs, Ok)) + 1) .. Len(heap)

\* The slabs among them, and their items.
CurSlabs == {b \in CurBlocks : heap[b].kind = "slab"}

CurItems == UNION {ItemsOf(b, heap[b].n) : b \in CurSlabs}

\* C14: every item of every slab of the pool is either on the free list,
\* exactly once, or held by the caller, never both; the free list is
\* finite, acyclic, ends in NULL and holds no item twice.
C14_Partition ==
    status = "live" =>
        /\ Len(FreeList) <= TotalItems
        /\ Cardinality(Range(FreeList)) = Len(FreeList)
        /\ Range(FreeList) \cap BagToSet(held) = {}
        /\ Range(FreeList) \cup BagToSet(held) = CurItems
        /\ \A e \in BagToSet(held) : CopiesIn(e, held) = 1

\* Two slabs, items of both held, freed items back on the list in front
\* of never-used ones.
C14_Witness ==
    /\ status = "live"
    /\ Cardinality(CurSlabs) = 2
    /\ nFreesLife = 2
    /\ Len(FreeList) >= 3
    /\ BagCardinality(held) >= 8
    /\ FreeList[1][1] # FreeList[Len(FreeList)][1]

\* ------------------------------------------------------------------ C15
\* The slabs recorded in the pool: slabs[0 .. n_slabs - 1], null entries
\* left out.
Recorded ==
    IF pool.slabs = NullBlock THEN {}
    ELSE {heap[pool.slabs].ptrs[i] : i \in 1 .. pool.n_slabs} \ {NullBlock}

\* C15: slabs[0 .. n_slabs - 1] holds exactly the slabs obtained for the
\* pool and not yet released, a growth step adds the new slab and one to
\* n_slabs, and n_slabs <= cap_slabs.
C15_SlabsRecorded ==
    status = "live" =>
        /\ Recorded = {b \in CurSlabs : heap[b].state = "allocated"}
        /\ pool.n_slabs <= pool.cap_slabs
        /\ (last.op = "alloc_item" /\ last.req # 0) =>
               /\ pool.n_slabs = last.pre.n_slabs + 1
               /\ Len(heap) \in Recorded

\* ------------------------------------------------------------------ C16
\* C16: while the caller holds an item, no alloc_item or free_item of the
\* pool changes what is stored in it, and the slab it lies in stays where
\* it is, allocated and of the same size.
C16_HeldUntouched ==
    [][(last'.op \in {"alloc_item", "free_item"}) =>
          \A e \in BagToSet(held) \cap BagToSet(held') :
              /\ e \in DOMAIN mem'
              /\ mem'[e] = mem[e]
              /\ heap'[e[1]] = heap[e[1]]
              /\ heap'[e[1]].state = "allocated"]_vars

\* The pool has grown and an item was freed while items of the first slab
\* are still held.
C16_Witness ==
    /\ status = "live"
    /\ last.op = "alloc_item"
    /\ last.req # 0
    /\ nFreesLife >= 1
    /\ Cardinality(CurSlabs) = 2
    /\ \E e \in BagToSet(held) : e[1] # last.ret[1]

\* ------------------------------------------------------------------ C17
\* C17: free_item(pool, e) makes no call to the collaborator, leaves
\* slabs, n_slabs, cap_slabs and n_items as they are, and does two things
\* only: it stores the old first_free in e and makes e the new first_free.
C17_FreeItemFrame ==
    [][(last'.op = "free_item") =>
          LET e == last'.ret
          IN  /\ heap' = heap
              /\ reqs' = reqs
              /\ pool' = [pool EXCEPT !.first_free = e]
              /\ mem' = [mem EXCEPT ![e] = pool.first_free]
              /\ status' = status]_vars

\* An item was freed onto a non-empty free list of a pool that has a slab
\* index.
C17_Witness ==
    /\ status = "live"
    /\ last.op = "free_item"
    /\ last.pre.first_free # Null
    /\ last.pre.n_slabs = 1
    /\ mem[last.ret] = last.pre.first_free

\* ------------------------------------------------------------------ C18
\* C18: after deinit every member of the pool has the value init_empty
\* gives it; a deinit of a pool in that state releases no block; and the
\* alloc_item calls that follow behave as on a pool fresh from
\* init_empty: the first obtains a slab of 8 items, whatever the counter
\* was before the deinit, and the counter restarts at 0.
C18_DeinitResets ==
    /\ [](/\ (last.op = "deinit" /\ status = "live") =>
                 /\ pool.slabs = 0
                 /\ pool.n_slabs = 0
                 /\ pool.cap_slabs = 0
                 /\ pool.n_items = 0
                 /\ pool.first_free = <<0, 0>>
                 /\ FreeList = <<>>
          /\ (origin = "deinit" /\ status = "live" /\ pool.n_items >= 1) =>
                 /\ reqs[1].by = "alloc_item"
                 /\ reqs[1].n = 8
                 /\ (nFreesLife = 0 /\ pool.n_items <= 8) =>
                        /\ Len(reqs) = 1
                        /\ Len(FreeList) = 8 - pool.n_items)
    /\ [][(last'.op = "deinit" /\ pool.n_slabs = 0 /\ pool.slabs = 0) =>
             heap' = heap]_vars

\* deinit was called twice, the second time on the reset pool with a
\* leftover slab in the heap, and alloc_item was called after it.
C18_Witness ==
    /\ status = "live"
    /\ nDeinits = 2
    /\ origin = "deinit"
    /\ last.op = "alloc_item"
    /\ pool.n_items = 1
    /\ Len(heap) >= 3

\* ------------------------------------------------------------------ C19
\* Sum of the first k entries of a sequence of numbers.
RECURSIVE SumTo(_, _)
SumTo(q, k) == IF k = 0 THEN 0 ELSE SumTo(q, k - 1) + q[k]

\* C19: whenever alloc_item finds the free list empty, n_items is at
\* least the number of items in all slabs of the pool, so each slab
\* obtained by growth has at least as many items as all slabs before it
\* together.
C19_AtLeastDoubles ==
    /\ (last.op = "alloc_item" /\ last.req # 0) =>
           LET before == IF last.ok THEN Len(SlabSizes) - 1 ELSE Len(SlabSizes)
           IN  /\ last.pre.n_items >= SumTo(SlabSizes, before)
               /\ last.req >= SumTo(SlabSizes, before)
    /\ \A k \in 2 .. Len(SlabSizes) : SlabSizes[k] >= SumTo(SlabSizes, k - 1)

\* A third slab, after init_with_cap: 9 items exist and are all held.
C19_Witness ==
    /\ status = "live"
    /\ origin = "init_with_cap"
    /\ last.op = "alloc_item"
    /\ last.req # 0
    /\ Len(SlabSizes) = 3
    /\ SumTo(SlabSizes, 2) >= 9
====
